---------------------------- MODULE Spec2Model ----------------------------
(***************************************************************************)
(* A model of the BottleUnwrapper geometry engine:                         *)
(*   scripts/seam_extract.py  extract_seam             (SpecSeam)          *)
(*   scripts/preprocess.py    extract_stable_cylinder  (SpecCyl)           *)
(*   scripts/uv_repack.py     load_obj_uv / main       (SpecRemap)         *)
(* Every function is a straight-line batch computation; it is modelled as  *)
(* a chain of steps guarded by a program counter, one step per numbered    *)
(* section of the source.  Vertex and UV indices are 0-based in the source *)
(* and 1-based here (TLA+ sequences); the order of indices is the same.    *)
(* Floating point numbers are modelled by exact integer/rational           *)
(* arithmetic; rounding error of IEEE doubles is not modelled.             *)
(***************************************************************************)
EXTENDS Integers, Sequences, FiniteSets, TLC

VARIABLES
    \* ---- seam_extract.py: extract_seam
    seam_pc,            \* position in extract_seam
    mesh_vertices,      \* mesh.vertices: sequence of [x, z] (y = 0)
    mesh_faces,         \* mesh.faces: sequence of vertex index triples
    boundary_indices,   \* sorted sequence of boundary vertex indices
    top_indices,        \* boundary vertices with z > z_mean, in order
    bottom_indices,     \* boundary vertices with z < z_mean, in order
    start_idx,          \* chosen top vertex (0 = not chosen yet)
    end_idx,            \* chosen bottom vertex (0 = not chosen yet)
    path,               \* result of nx.shortest_path
    seam_file,          \* the file at output_txt: [by, lines]
    seam_msg,           \* the error line printed, "" when none
    seam_raised,        \* TRUE when an exception left extract_seam
    \* ---- preprocess.py: extract_stable_cylinder
    cyl_pc,             \* position in extract_stable_cylinder
    cyl_vertices,       \* mesh.vertices: sequence of [x, z] (y = 0)
    cyl_faces,          \* mesh.faces
    bins,               \* parameter bins
    stability_tol,      \* parameter stability_tol as a fraction [num, den]
    profile_r,          \* profile_r, in units of 1/10
    profile_smooth,     \* profile_smooth, in units of 1/(10 * KernelSum)
    is_stable,          \* is_stable
    segments,           \* segments: runs of 0-based bin indices
    best_segment,       \* best_segment: 0-based bin indices
    used_fallback,      \* TRUE when the middle 50% was taken
    cyl_exit,           \* the message of sys.exit, "" when none
    body_mesh,          \* the exported sub-mesh: [saved, faces, vertices]
    \* ---- uv_repack.py: main
    remap_pc,           \* position in main
    old_file,           \* the OBJ at --old: [vt, f]
    new_file,           \* the OBJ at --new: [vt, f]
    src_img,            \* the image at --image: [w, h, data]
    scale,              \* --scale
    old_uvs,            \* old_uvs (numerators over UVDen, V flipped)
    old_faces,          \* old_faces
    new_uvs,            \* new_uvs
    new_faces,          \* new_faces
    faces_loaded,       \* triangles each file yielded: [old, new]
    warned,             \* TRUE when the mismatch warning was printed
    dst_size,           \* [w, h] of the output
    face_map,           \* face_map: pixel <<x, y>> -> 0 or face index + 1
    draw_i,             \* the loop index of the drawing loop
    weights,            \* per owned pixel: [u, v, w, den, clamped]
    dst_img_arr,        \* the output pixels
    remap_raised,       \* the exception that left main, "" when none
    out_saved,          \* TRUE when the output image was saved
    \* ---- main.py: pipeline
    pipe_pc,            \* position in pipeline
    started,            \* the stages started so far, in order
    stage_status,       \* exit status per stage, -1 while it has none
    unwrap_seam,        \* the seam file the unwrap stage was started on
    pipe_result,        \* "returned", or the exception that left pipeline
    \* ---- gui.py: MainWindow
    gui_pc,             \* "idle" before the window exists, then "open"
    input_obj,          \* self.input_obj, "" for None
    input_tex,          \* self.input_tex, "" for None
    btn_enabled,        \* self.btn_run.isEnabled()
    signals_cur,        \* the WorkerSignals object in self.signals, 0 for none
    threads,            \* per launched thread: "running", "emitted", "handled", "lost"
    pending,            \* queued signal deliveries: [thread, signals, kind]
    last_event          \* the handler that ran last

seamVars == <<seam_pc, mesh_vertices, mesh_faces, boundary_indices, top_indices,
              bottom_indices, start_idx, end_idx, path, seam_file, seam_msg,
              seam_raised>>

cylVars == <<cyl_pc, cyl_vertices, cyl_faces, bins, stability_tol, profile_r,
             profile_smooth, is_stable, segments, best_segment, used_fallback,
             cyl_exit, body_mesh>>

remapVars == <<remap_pc, old_file, new_file, src_img, scale, old_uvs, old_faces,
               new_uvs, new_faces, faces_loaded, warned, dst_size, face_map,
               draw_i, weights, dst_img_arr, remap_raised, out_saved>>

pipeVars == <<pipe_pc, started, stage_status, unwrap_seam, pipe_result>>

guiVars == <<gui_pc, input_obj, input_tex, btn_enabled, signals_cur, threads, pending,
             last_event>>

notSeam == <<cylVars, remapVars, pipeVars, guiVars>>
notCyl == <<seamVars, remapVars, pipeVars, guiVars>>
notRemap == <<seamVars, cylVars, pipeVars, guiVars>>
notPipe == <<cylVars, remapVars, guiVars>>
notGui == <<seamVars, cylVars, remapVars, pipeVars>>

vars == <<seamVars, cylVars, remapVars, pipeVars, guiVars>>

----------------------------------------------------------------------------
(* Generic helpers *)

Min(a, b) == IF a <= b THEN a ELSE b
Max(a, b) == IF a >= b THEN a ELSE b
Abs(a) == IF a < 0 THEN -a ELSE a

SetMin(S) == CHOOSE m \in S : \A e \in S : m <= e
SetMax(S) == CHOOSE m \in S : \A e \in S : m >= e

RECURSIVE SetToSortedSeq(_)
SetToSortedSeq(S) ==
    IF S = {} THEN <<>>
    ELSE LET m == SetMin(S) IN <<m>> \o SetToSortedSeq(S \ {m})

Range(s) == {s[i] : i \in 1..Len(s)}

RECURSIVE SeqSum(_)
SeqSum(s) == IF Len(s) = 0 THEN 0 ELSE s[1] + SeqSum(Tail(s))

\* the elements of s that satisfy the mask, in order (numpy boolean indexing)
RECURSIVE SelectByMask(_, _)
SelectByMask(s, mask) ==
    IF Len(s) = 0 THEN <<>>
    ELSE (IF mask[1] THEN <<s[1]>> ELSE <<>>) \o SelectByMask(Tail(s), Tail(mask))

\* np.argmin: the first position of the minimum
ArgMin(s) == SetMin({i \in 1..Len(s) : \A j \in 1..Len(s) : s[i] <= s[j]})

----------------------------------------------------------------------------
(* Bounds of the seam model *)

SeamMaxZ == 1        \* vertex heights are drawn from 0..SeamMaxZ

\* the face lists of the mesh family, on six vertices: nothing, one triangle,
\* a strip of two, a strip of three, a closed tetrahedron, a face listed
\* twice, two separate triangles, a strip with a triangle hanging on vertex 4
SeamFaceLists ==
    { <<>>,
      << <<1, 2, 3>> >>,
      << <<1, 2, 3>>, <<2, 3, 4>> >>,
      << <<1, 2, 3>>, <<2, 3, 4>>, <<3, 4, 5>> >>,
      << <<1, 2, 3>>, <<1, 2, 4>>, <<1, 3, 4>>, <<2, 3, 4>> >>,
      << <<1, 2, 3>>, <<1, 2, 3>> >>,
      << <<1, 2, 3>>, <<4, 5, 6>> >>,
      << <<1, 2, 3>>, <<2, 3, 4>>, <<4, 5, 6>> >> }
SeamNumVerts ==
    SetMax(UNION { UNION { Range(fs[i]) : i \in 1..Len(fs) } : fs \in SeamFaceLists })
\* the x coordinates of the vertices are drawn from these assignments
SeamXPatterns == { [i \in 1..SeamNumVerts |-> i % 2],
                   [i \in 1..SeamNumVerts |-> SeamNumVerts - i] }

\* the meshes extract_seam is run on
SeamMeshes ==
    { [vertices |-> [i \in 1..SeamNumVerts |-> [x |-> xs[i], z |-> zs[i]]],
       faces |-> fs] :
        zs \in [1..SeamNumVerts -> 0..SeamMaxZ],
        xs \in SeamXPatterns,
        fs \in SeamFaceLists }

\* what may be at output_txt before the run: nothing, or an earlier run's file
SeamFilesBefore == { [by |-> "none", lines |-> <<>>],
                     [by |-> "earlier", lines |-> <<1, 2>>] }

----------------------------------------------------------------------------
(* trimesh / networkx helpers used by extract_seam *)

SortedPair(a, b) == <<Min(a, b), Max(a, b)>>

\* mesh.edges_sorted: the three edges of every face, each with its ends sorted
RECURSIVE edges_sorted(_)
edges_sorted(faces) ==
    IF Len(faces) = 0 THEN <<>>
    ELSE LET f == faces[1]
         IN  << SortedPair(f[1], f[2]), SortedPair(f[2], f[3]),
                SortedPair(f[3], f[1]) >> \o edges_sorted(Tail(faces))

\* group_rows(edges, require_count=1): the rows that occur exactly once
unique_edges(faces) ==
    LET es == edges_sorted(faces)
    IN  { es[i] : i \in { k \in 1..Len(es) :
                            Cardinality({j \in 1..Len(es) : es[j] = es[k]}) = 1 } }

\* np.unique(unique_edges.flatten())
BoundaryIndices(faces) ==
    SetToSortedSeq(UNION { {e[1], e[2]} : e \in unique_edges(faces) })

\* mesh.vertex_adjacency_graph: an undirected graph with one edge per mesh edge
GraphNodes(faces) == UNION { {e[1], e[2]} : e \in Range(edges_sorted(faces)) }
Adjacent(faces, u, v) == SortedPair(u, v) \in Range(edges_sorted(faces))
Neighbours(faces, u) == { v \in GraphNodes(faces) : Adjacent(faces, u, v) /\ v # u }

\* breadth-first layers from a source: Layer(k) = nodes at distance exactly k
RECURSIVE BfsLayers(_, _, _)
BfsLayers(faces, layers, seen) ==
    LET frontier == layers[Len(layers)]
        next == (UNION { Neighbours(faces, u) : u \in frontier }) \ seen
    IN  IF next = {} THEN layers
        ELSE BfsLayers(faces, Append(layers, next), seen \cup next)

\* all shortest paths that end in v, v being in layer k (1-based) of the search
RECURSIVE PathsTo(_, _, _, _)
PathsTo(faces, layers, k, v) ==
    IF k = 1 THEN {<<v>>}
    ELSE UNION { { Append(p, v) : p \in PathsTo(faces, layers, k - 1, u) } :
                    u \in { w \in layers[k - 1] : Adjacent(faces, w, v) } }

\* nx.shortest_path(graph, source, target) without weights returns one of the
\* shortest paths (which one depends on the adjacency iteration order), and
\* raises NetworkXNoPath when the target is not reachable: the empty set here
ShortestPaths(faces, source, target) ==
    LET layers == BfsLayers(faces, <<{source}>>, {source})
        ks == { k \in 1..Len(layers) : target \in layers[k] }
    IN  IF ks = {} THEN {}
        ELSE PathsTo(faces, layers, CHOOSE k \in ks : TRUE, target)


----------------------------------------------------------------------------
(* extract_seam, scripts/seam_extract.py *)

MsgWatertight == "Error: Mesh is watertight (no boundaries). Cannot find top/bottom."
MsgNoLoops == "Error: Could not separate top and bottom loops."
MsgNoPath == "Error: No path found between top and bottom. Mesh might be disconnected."

\* z_values > z_mean, with z_mean = sum / n, as an exact comparison
AboveMean(zs, i) == zs[i] * Len(zs) > SeqSum(zs)
BelowMean(zs, i) == zs[i] * Len(zs) < SeqSum(zs)

BoundaryZ(verts, bnd) == [i \in 1..Len(bnd) |-> verts[bnd[i]].z]

TopIndices(verts, bnd) ==
    LET zs == BoundaryZ(verts, bnd)
    IN  SelectByMask(bnd, [i \in 1..Len(bnd) |-> AboveMean(zs, i)])

BottomIndices(verts, bnd) ==
    LET zs == BoundaryZ(verts, bnd)
    IN  SelectByMask(bnd, [i \in 1..Len(bnd) |-> BelowMean(zs, i)])

\* top_indices[np.argmin(mesh.vertices[top_indices, 0])]
StartIdx(verts, top) == top[ArgMin([i \in 1..Len(top) |-> verts[top[i]].x])]

\* the squared distance orders the candidates as np.linalg.norm does
SqDist(p, q) == (p.x - q.x) * (p.x - q.x) + (p.z - q.z) * (p.z - q.z)

EndIdx_fromTop(verts, top, bottom, start) ==
    top[ArgMin([i \in 1..Len(top) |-> SqDist(verts[top[i]], verts[start])])]

\* bottom_indices[np.argmin(dists)]
EndIdx(verts, top, bottom, start) ==
    bottom[ArgMin([i \in 1..Len(bottom) |-> SqDist(verts[bottom[i]], verts[start])])]

\* the except clause of the search: report and return
OnNoPath_uncaught == [pc |-> "raised", msg |-> "", raised |-> TRUE]

OnNoPath == [pc |-> "returned", msg |-> MsgNoPath, raised |-> FALSE]

SeamIdle ==
    /\ seam_pc = "idle"
    /\ mesh_vertices = <<>>
    /\ mesh_faces = <<>>
    /\ boundary_indices = <<>>
    /\ top_indices = <<>>
    /\ bottom_indices = <<>>
    /\ start_idx = 0
    /\ end_idx = 0
    /\ path = <<>>
    /\ seam_file = [by |-> "none", lines |-> <<>>]
    /\ seam_msg = ""
    /\ seam_raised = FALSE

SeamInit ==
    /\ seam_pc = "load"
    /\ \E m \in SeamMeshes :
          /\ mesh_vertices = m.vertices
          /\ mesh_faces = m.faces
    /\ boundary_indices = <<>>
    /\ top_indices = <<>>
    /\ bottom_indices = <<>>
    /\ start_idx = 0
    /\ end_idx = 0
    /\ path = <<>>
    /\ seam_file \in SeamFilesBefore
    /\ seam_msg = ""
    /\ seam_raised = FALSE

\* lines 8-20: load, find the boundary vertices, stop on a closed mesh
SeamBoundary ==
    /\ UNCHANGED notSeam
    /\ seam_pc = "load"
    /\ boundary_indices' = BoundaryIndices(mesh_faces)
    /\ IF Len(boundary_indices') = 0
       THEN seam_pc' = "returned" /\ seam_msg' = MsgWatertight
       ELSE seam_pc' = "split" /\ seam_msg' = seam_msg
    /\ UNCHANGED <<mesh_vertices, mesh_faces, top_indices, bottom_indices,
                   start_idx, end_idx, path, seam_file, seam_raised>>

\* lines 24-32: split the boundary vertices at the mean height
SeamSplit ==
    /\ UNCHANGED notSeam
    /\ seam_pc = "split"
    /\ top_indices' = TopIndices(mesh_vertices, boundary_indices)
    /\ bottom_indices' = BottomIndices(mesh_vertices, boundary_indices)
    /\ IF Len(top_indices') = 0 \/ Len(bottom_indices') = 0
       THEN seam_pc' = "returned" /\ seam_msg' = MsgNoLoops
       ELSE seam_pc' = "endpoints" /\ seam_msg' = seam_msg
    /\ UNCHANGED <<mesh_vertices, mesh_faces, boundary_indices, start_idx,
                   end_idx, path, seam_file, seam_raised>>

\* lines 37-44: choose the start and the end vertex
SeamEndpoints ==
    /\ UNCHANGED notSeam
    /\ seam_pc = "endpoints"
    /\ start_idx' = StartIdx(mesh_vertices, top_indices)
    /\ end_idx' = EndIdx(mesh_vertices, top_indices, bottom_indices, start_idx')
    /\ seam_pc' = "search"
    /\ UNCHANGED <<mesh_vertices, mesh_faces, boundary_indices, top_indices,
                   bottom_indices, path, seam_file, seam_msg, seam_raised>>

\* lines 48-53: shortest path, NetworkXNoPath is caught
SeamSearch ==
    /\ UNCHANGED notSeam
    /\ seam_pc = "search"
    /\ LET found == ShortestPaths(mesh_faces, start_idx, end_idx)
       IN  IF found = {}
           THEN /\ seam_pc' = OnNoPath.pc
                /\ seam_msg' = OnNoPath.msg
                /\ seam_raised' = OnNoPath.raised
                /\ path' = path
           ELSE /\ \E p \in found : path' = p
                /\ seam_pc' = "write"
                /\ UNCHANGED <<seam_msg, seam_raised>>
    /\ UNCHANGED <<mesh_vertices, mesh_faces, boundary_indices, top_indices,
                   bottom_indices, start_idx, end_idx, seam_file>>

\* lines 56-62: write the header and one line per path vertex
SeamWrite ==
    /\ UNCHANGED notSeam
    /\ seam_pc = "write"
    /\ seam_file' = [by |-> "this", lines |-> path]
    /\ seam_pc' = "returned"
    /\ UNCHANGED <<mesh_vertices, mesh_faces, boundary_indices, top_indices,
                   bottom_indices, start_idx, end_idx, path, seam_msg,
                   seam_raised>>

SeamNext ==
    \/ SeamBoundary
    \/ SeamSplit
    \/ SeamEndpoints
    \/ SeamSearch
    \/ SeamWrite


----------------------------------------------------------------------------
(* Properties of extract_seam, stated on the mesh itself *)

\* the unordered edges of one face
FaceEdges(f) == { {f[1], f[2]}, {f[2], f[3]}, {f[3], f[1]} }

\* u and v are joined by an edge of the mesh
MeshEdge(u, v) ==
    u # v /\ \E i \in 1..Len(mesh_faces) : {u, v} \in FaceEdges(mesh_faces[i])

\* the vertices of the edges that belong to exactly one face
BoundaryVertexSet ==
    { v \in 1..Len(mesh_vertices) :
        \E u \in 1..Len(mesh_vertices) :
            Cardinality({ i \in 1..Len(mesh_faces) :
                            {u, v} \in FaceEdges(mesh_faces[i]) }) = 1 }

RECURSIVE SumZ(_)
SumZ(S) ==
    IF S = {} THEN 0
    ELSE LET v == CHOOSE w \in S : TRUE
         IN  mesh_vertices[v].z + SumZ(S \ {v})

TopGroup ==
    LET b == BoundaryVertexSet
        n == Cardinality(b)
        total == SumZ(b)
    IN  { v \in b : mesh_vertices[v].z * n > total }
BottomGroup ==
    LET b == BoundaryVertexSet
        n == Cardinality(b)
        total == SumZ(b)
    IN  { v \in b : mesh_vertices[v].z * n < total }

\* the vertices connected to v by a walk along mesh edges
RECURSIVE Component(_)
Component(S) ==
    LET more == { w \in 1..Len(mesh_vertices) : \E u \in S : MeshEdge(u, w) } \ S
    IN  IF more = {} THEN S ELSE Component(S \cup more)

\* C1: whenever extract_seam has written the seam file, the written path has
\* at least 2 vertices, starts in the top boundary group, ends in the bottom
\* boundary group, and consecutive vertices are joined by a mesh edge.
C1_SeamPathValid ==
    seam_file.by = "this" =>
        LET p == seam_file.lines
        IN  /\ Len(p) >= 2
            /\ p[1] \in TopGroup
            /\ p[Len(p)] \in BottomGroup
            /\ \A i \in 1..(Len(p) - 1) : MeshEdge(p[i], p[i + 1])

\* a seam of three or more vertices has been written
C1_Witness == seam_file.by = "this" /\ Len(seam_file.lines) >= 3

\* the three GeometryError cases, read off the mesh and the chosen end points
SeamNoBoundary == BoundaryVertexSet = {}
SeamNoLoops == ~SeamNoBoundary /\ (TopGroup = {} \/ BottomGroup = {})
SeamNoPath == start_idx # 0 /\ end_idx # 0 /\ end_idx \notin Component({start_idx})

\* C3: in each GeometryError case (no boundary edge; an empty top or bottom
\* group; no path between the chosen end points) extract_seam, once it has
\* ended, has printed the error, has returned normally, has raised nothing
\* and has not written the seam file.
C3_GeometryErrorsReturn ==
    /\ ~seam_raised
    /\ (seam_pc \in {"returned", "raised"} /\ (SeamNoBoundary \/ SeamNoLoops \/ SeamNoPath)) =>
          /\ seam_pc = "returned"
          /\ seam_msg = (IF SeamNoBoundary THEN MsgWatertight
                         ELSE IF SeamNoLoops THEN MsgNoLoops ELSE MsgNoPath)
          /\ seam_file.by # "this"
    /\ (seam_pc \notin {"returned", "raised"}) => seam_file.by # "this"

\* the search found no path and the function returned with the old file kept
C3_Witness ==
    /\ seam_pc = "returned" /\ SeamNoPath /\ seam_msg = MsgNoPath
    /\ seam_file.by = "earlier"

----------------------------------------------------------------------------
(* Bounds and inputs of the cylinder model *)

CylMaxVerts == 5     \* meshes have no vertex or CylMaxVerts vertices
CylMaxZ == 3         \* vertex heights are drawn from 0..CylMaxZ
MaxBins == 21        \* bins is MaxBins - 1 or MaxBins

\* 5% of 20 bins is 1, 5% of 21 bins is 1.05: both sides of the length filter
BinsChoices == { MaxBins - 1, MaxBins }

\* stability_tol: the command line default 0.03 and a very strict 0.000001
TolChoices == { [num |-> 3, den |-> 100], [num |-> 1, den |-> 1000000] }

\* the radius |x| of vertex i follows one of these patterns
CylXPatterns == { [i \in 1..CylMaxVerts |-> 1],
                  [i \in 1..CylMaxVerts |-> 1 + ((i + 1) % 2)],
                  [i \in 1..CylMaxVerts |-> -(1 + (i % 2))] }

\* face lists along the strip of height-sorted vertices
CylFaceLists == { <<>>,
                  << <<1, 2, 3>> >>,
                  << <<2, 3, 4>> >>,
                  << <<1, 2, 3>>, <<2, 3, 4>> >>,
                  << <<2, 3, 4>>, <<3, 4, 5>> >>,
                  << <<1, 2, 4>>, <<3, 4, 5>> >> }

\* nondecreasing height sequences of length n
RECURSIVE SortedSeqs(_, _)
SortedSeqs(n, lo) ==
    IF n = 0 THEN {<<>>}
    ELSE UNION { { <<z>> \o r : r \in SortedSeqs(n - 1, z) } : z \in lo..CylMaxZ }

CylMeshes ==
    UNION { { [vertices |-> [i \in 1..n |-> [x |-> xs[i], z |-> zs[i]]],
               faces |-> fs] :
                zs \in SortedSeqs(n, 0),
                xs \in CylXPatterns,
                fs \in { f \in CylFaceLists :
                           \A i \in 1..Len(f) : \A j \in 1..3 : f[i][j] <= n } } :
            n \in {0, CylMaxVerts} }

----------------------------------------------------------------------------
(* numpy / scipy helpers used by extract_stable_cylinder *)

\* insertion of a value into a sorted sequence, and sorting
RECURSIVE InsertSorted(_, _)
InsertSorted(s, v) ==
    IF Len(s) = 0 THEN <<v>>
    ELSE IF v <= s[1] THEN <<v>> \o s
    ELSE <<s[1]>> \o InsertSorted(Tail(s), v)

RECURSIVE SortAscending(_)
SortAscending(s) == IF Len(s) = 0 THEN <<>> ELSE InsertSorted(SortAscending(Tail(s)), s[1])

\* np.percentile(values, 90), linear interpolation, times 10:
\* position 0.9 * (n - 1) between the sorted values
Percentile90x10(values) ==
    LET a == SortAscending(values)
        n == Len(a)
        lo == (9 * (n - 1)) \div 10
        frac == (9 * (n - 1)) % 10
    IN  IF frac = 0 THEN 10 * a[lo + 1]
        ELSE 10 * a[lo + 1] + frac * (a[lo + 2] - a[lo + 1])

\* gaussian_filter1d(sigma = 2): kernel radius int(4.0 * sigma + 0.5) = 8,
\* weights exp(-k^2 / (2 sigma^2)) in units of 1/10000, normalised by their sum
Sigma == 2
KernelRadius == (4 * Sigma * 2 + 1) \div 2
KernelWeights == <<10000, 8825, 6065, 3247, 1353, 439, 111, 22, 3>>
KernelSum == KernelWeights[1] + 2 * SeqSum(Tail(KernelWeights))

\* scipy's boundary mode 'reflect' (d c b a | a b c d | d c b a), 0-based
Reflect(i, n) ==
    LET m == i % (2 * n)
    IN  IF m >= n THEN 2 * n - 1 - m ELSE m

\* one sample of the filtered sequence (0-based i), times KernelSum
SmoothAt(p, i) ==
    LET n == Len(p)
        term(k) == KernelWeights[Abs(k) + 1] * p[Reflect(i + k, n) + 1]
        RECURSIVE acc(_)
        acc(k) == IF k > KernelRadius THEN 0 ELSE term(k) + acc(k + 1)
    IN  acc(-KernelRadius)

gaussian_filter1d(p) == [i \in 1..Len(p) |-> SmoothAt(p, i - 1)]

\* np.gradient times 2: central differences inside, one-sided at both ends
Gradient2(f) ==
    LET n == Len(f)
    IN  [i \in 1..n |->
            IF i = 1 THEN 2 * (f[2] - f[1])
            ELSE IF i = n THEN 2 * (f[n] - f[n - 1])
            ELSE f[i + 1] - f[i - 1]]

\* a * den < num * b for integers, without forming a * den
LessThanFraction(a, num, den, b) == a < (num * b + den - 1) \div den

\* norm_gradient < stability_tol, with norm_gradient = |gradient| / mean_r and
\* mean_r = mean(profile_smooth), replaced by 1.0 when below 1e-6
IsStable(smooth, tol) ==
    LET n == Len(smooth)
        total == SeqSum(smooth)
        g2 == Gradient2(smooth)
    IN  [i \in 1..n |->
            IF total = 0
            THEN LessThanFraction(Abs(g2[i]), tol.num, tol.den, 2 * 10 * KernelSum)
            ELSE LessThanFraction(Abs(g2[i]) * n, tol.num, tol.den, 2 * total)]

----------------------------------------------------------------------------
(* Exact comparison of scores.  score = length * seg_r ^ 0.3 with           *)
(* seg_r = sum / (length * unit), so score_a > score_b exactly when         *)
(* length_a^7 * sum_a^3 > length_b^7 * sum_b^3.  The products exceed 32     *)
(* bits and are formed as decimal digit sequences, lowest digit first.      *)

RECURSIVE BigMul(_, _, _)
BigMul(digits, k, carry) ==
    IF Len(digits) = 0
    THEN IF carry = 0 THEN <<>> ELSE <<carry % 10>> \o BigMul(<<>>, k, carry \div 10)
    ELSE LET t == digits[1] * k + carry
         IN  <<t % 10>> \o BigMul(Tail(digits), k, t \div 10)

RECURSIVE BigMulPow(_, _, _)
BigMulPow(digits, k, e) ==
    IF e = 0 THEN digits ELSE BigMulPow(BigMul(digits, k, 0), k, e - 1)

\* digit sequences without leading zeros: longer is larger, then compare from the top
RECURSIVE BigGreaterFrom(_, _, _)
BigGreaterFrom(a, b, i) ==
    IF i = 0 THEN FALSE
    ELSE IF a[i] # b[i] THEN a[i] > b[i]
    ELSE BigGreaterFrom(a, b, i - 1)

BigGreater(a, b) ==
    IF Len(a) # Len(b) THEN Len(a) > Len(b) ELSE BigGreaterFrom(a, b, Len(a))

\* length^7 * sum^3 (zero is the empty digit sequence)
ScoreKey(length, sum) ==
    IF sum = 0 \/ length = 0 THEN <<>>
    ELSE BigMulPow(BigMulPow(<<1>>, length, 7), sum, 3)

----------------------------------------------------------------------------
(* extract_stable_cylinder, scripts/preprocess.py *)

MsgEmptyMesh == "Error: Empty mesh"
MsgFlatMesh == "Error: Flat mesh (no height)"
MsgNoSegment == "Error: No valid body segment found."
MsgEmptyCut == "Error: Cut result is empty."

ZMin(verts) == SetMin({verts[i].z : i \in 1..Len(verts)})
ZMax(verts) == SetMax({verts[i].z : i \in 1..Len(verts)})
Height(verts) == ZMax(verts) - ZMin(verts)

\* np.linalg.norm(mesh.vertices[:, :2], axis=1) with y = 0
Radius(v) == Abs(v.x)

\* np.digitize(z, bin_edges) with bin_edges = np.linspace(z_min, z_max, bins + 1):
\* the number of edges z_min + k * height / bins that are <= z
BinIndex(z_min, height, nbins, z) ==
    Cardinality({ k \in 0..nbins : k * height <= (z - z_min) * nbins })

\* bin_indices, one entry per vertex
BinIndices(verts, nbins) ==
    LET z_min == ZMin(verts)
        height == Height(verts)
    IN  [j \in 1..Len(verts) |-> BinIndex(z_min, height, nbins, verts[j].z)]

\* radii_verts[bin_indices == i], in vertex order
RadiiInBin(verts, bin_indices, i) ==
    LET idx == SelectByMask([j \in 1..Len(verts) |-> j],
                            [j \in 1..Len(verts) |-> bin_indices[j] = i])
    IN  [j \in 1..Len(idx) |-> Radius(verts[idx[j]])]

EmptyBinValue_zero(sofar) == 0

\* r_layer of a bin without vertices: profile_r[-1] if len(profile_r) > 0 else 0
EmptyBinValue(sofar) == IF Len(sofar) > 0 THEN sofar[Len(sofar)] ELSE 0

\* the loop of lines 84-93, from bin i on, profile_r being sofar
RECURSIVE ProfileLoop(_, _, _, _, _)
ProfileLoop(verts, bin_indices, nbins, i, sofar) ==
    IF i > nbins THEN sofar
    ELSE LET radii == RadiiInBin(verts, bin_indices, i)
             r_layer == IF Len(radii) > 0 THEN Percentile90x10(radii)
                        ELSE EmptyBinValue(sofar)
         IN  ProfileLoop(verts, bin_indices, nbins, i + 1, Append(sofar, r_layer))

ProfileR(verts, nbins) ==
    LET b == BinIndices(verts, nbins)
        bin_indices == [j \in 1..Len(verts) |-> b[j]]
    IN  ProfileLoop(verts, bin_indices, nbins, 1, <<>>)

\* the loop of lines 116-127: runs of consecutive stable bins (0-based)
RECURSIVE GroupRuns(_, _, _, _)
GroupRuns(stable, i, current, done) ==
    IF i > Len(stable)
    THEN IF Len(current) > 0 THEN Append(done, current) ELSE done
    ELSE IF stable[i]
    THEN GroupRuns(stable, i + 1, Append(current, i - 1), done)
    ELSE IF Len(current) > 0
    THEN GroupRuns(stable, i + 1, <<>>, Append(done, current))
    ELSE GroupRuns(stable, i + 1, <<>>, done)

\* range(int(bins * 0.25), int(bins * 0.75))
FallbackSegment(nbins) ==
    LET lo == nbins \div 4
        hi == (3 * nbins) \div 4
    IN  [i \in 1..Max(hi - lo, 0) |-> lo + i - 1]

\* length < bins * 0.05
TooShort(length, nbins) == 20 * length < nbins

\* np.mean(profile_smooth[seg]) * length, in the units of profile_smooth
SegSum(smooth, seg) == SeqSum([i \in 1..Len(seg) |-> smooth[seg[i] + 1]])

\* the variant that takes the first run that is long enough
RECURSIVE BestOf_first(_, _, _, _)
BestOf_first(segs, smooth, nbins, best) ==
    IF Len(segs) = 0 THEN best.seg
    ELSE IF TooShort(Len(segs[1]), nbins)
    THEN BestOf_first(Tail(segs), smooth, nbins, best)
    ELSE segs[1]

\* the loop of lines 142-157; best.key = "none" stands for best_score = -1
RECURSIVE BestOf(_, _, _, _)
BestOf(segs, smooth, nbins, best) ==
    IF Len(segs) = 0 THEN best.seg
    ELSE LET seg == segs[1]
             key == ScoreKey(Len(seg), SegSum(smooth, seg))
         IN  IF TooShort(Len(seg), nbins)
             THEN BestOf(Tail(segs), smooth, nbins, best)
             ELSE IF best.none \/ BigGreater(key, best.key)
             THEN BestOf(Tail(segs), smooth, nbins,
                         [none |-> FALSE, key |-> key, seg |-> seg])
             ELSE BestOf(Tail(segs), smooth, nbins, best)

\* v_mask: z_cut_min <= z <= z_cut_max with the cuts at bin edges
\* z_min + idx_start * height / bins and z_min + (idx_end + 1) * height / bins
VertexMask_open(verts, nbins, seg, z) ==
    LET idx_start == seg[1]
        idx_end == seg[Len(seg)]
    IN  /\ (z - ZMin(verts)) * nbins >= idx_start * Height(verts)
        /\ (z - ZMin(verts)) * nbins < (idx_end + 1) * Height(verts)

VertexMask(verts, nbins, seg, z) ==
    LET idx_start == seg[1]
        idx_end == seg[Len(seg)]
    IN  /\ (z - ZMin(verts)) * nbins >= idx_start * Height(verts)
        /\ (z - ZMin(verts)) * nbins <= (idx_end + 1) * Height(verts)

\* np.where(v_mask[mesh.faces].all(axis=1))[0]: positions of the kept faces
ValidFaces(verts, faces, nbins, seg) ==
    SelectByMask([i \in 1..Len(faces) |-> i],
                 [i \in 1..Len(faces) |->
                    \A j \in 1..3 : VertexMask(verts, nbins, seg, verts[faces[i][j]].z)])

CutIsEmpty_never(valid) == FALSE

\* len(valid_faces) == 0
CutIsEmpty(valid) == Len(valid) = 0

\* mesh.submesh([valid_faces], append=True) and remove_unreferenced_vertices:
\* the kept faces, and the vertices they reference
Submesh(faces, valid) ==
    [saved |-> TRUE,
     faces |-> [i \in 1..Len(valid) |-> faces[valid[i]]],
     vertices |-> UNION { Range(faces[valid[i]]) : i \in 1..Len(valid) }]

NoMesh == [saved |-> FALSE, faces |-> <<>>, vertices |-> {}]

CylIdle ==
    /\ cyl_pc = "idle"
    /\ cyl_vertices = <<>>
    /\ cyl_faces = <<>>
    /\ bins = 0
    /\ stability_tol = [num |-> 0, den |-> 1]
    /\ profile_r = <<>>
    /\ profile_smooth = <<>>
    /\ is_stable = <<>>
    /\ segments = <<>>
    /\ best_segment = <<>>
    /\ used_fallback = FALSE
    /\ cyl_exit = ""
    /\ body_mesh = NoMesh

CylInit ==
    /\ cyl_pc = "check"
    /\ \E m \in CylMeshes :
          /\ cyl_vertices = m.vertices
          /\ cyl_faces = m.faces
    /\ bins \in BinsChoices
    /\ stability_tol \in TolChoices
    /\ profile_r = <<>>
    /\ profile_smooth = <<>>
    /\ is_stable = <<>>
    /\ segments = <<>>
    /\ best_segment = <<>>
    /\ used_fallback = FALSE
    /\ cyl_exit = ""
    /\ body_mesh = NoMesh

\* lines 66-74: the input checks
CylCheck ==
    /\ UNCHANGED notCyl
    /\ cyl_pc = "check"
    /\ IF Len(cyl_vertices) = 0
       THEN cyl_pc' = "exited" /\ cyl_exit' = MsgEmptyMesh
       ELSE IF Height(cyl_vertices) = 0
       THEN cyl_pc' = "exited" /\ cyl_exit' = MsgFlatMesh
       ELSE cyl_pc' = "profile" /\ cyl_exit' = cyl_exit
    /\ UNCHANGED <<cyl_vertices, cyl_faces, bins, stability_tol, profile_r,
                   profile_smooth, is_stable, segments, best_segment,
                   used_fallback, body_mesh>>

\* lines 78-95: the radius profile
CylProfile ==
    /\ UNCHANGED notCyl
    /\ cyl_pc = "profile"
    /\ profile_r' = ProfileR(cyl_vertices, bins)
    /\ cyl_pc' = "smooth"
    /\ UNCHANGED <<cyl_vertices, cyl_faces, bins, stability_tol, profile_smooth,
                   is_stable, segments, best_segment, used_fallback, cyl_exit,
                   body_mesh>>

\* lines 99-113: smoothing, gradient, stability
CylSmooth ==
    /\ UNCHANGED notCyl
    /\ cyl_pc = "smooth"
    /\ profile_smooth' = gaussian_filter1d(profile_r)
    /\ is_stable' = IsStable(profile_smooth', stability_tol)
    /\ cyl_pc' = "segments"
    /\ UNCHANGED <<cyl_vertices, cyl_faces, bins, stability_tol, profile_r,
                   segments, best_segment, used_fallback, cyl_exit, body_mesh>>

\* lines 116-127: runs of stable bins
CylSegments ==
    /\ UNCHANGED notCyl
    /\ cyl_pc = "segments"
    /\ segments' = GroupRuns(is_stable, 1, <<>>, <<>>)
    /\ cyl_pc' = "select"
    /\ UNCHANGED <<cyl_vertices, cyl_faces, bins, stability_tol, profile_r,
                   profile_smooth, is_stable, best_segment, used_fallback,
                   cyl_exit, body_mesh>>

\* lines 129-160: fallback or best score, exit when nothing was selected
CylSelect ==
    /\ UNCHANGED notCyl
    /\ cyl_pc = "select"
    /\ IF Len(segments) = 0
       THEN /\ best_segment' = FallbackSegment(bins)
            /\ used_fallback' = TRUE
       ELSE /\ best_segment' = BestOf(segments, profile_smooth, bins,
                                      [none |-> TRUE, key |-> <<>>, seg |-> <<>>])
            /\ used_fallback' = FALSE
    /\ IF Len(best_segment') = 0
       THEN cyl_pc' = "exited" /\ cyl_exit' = MsgNoSegment
       ELSE cyl_pc' = "cut" /\ cyl_exit' = cyl_exit
    /\ UNCHANGED <<cyl_vertices, cyl_faces, bins, stability_tol, profile_r,
                   profile_smooth, is_stable, segments, body_mesh>>

\* lines 164-185: cut and export
CylCut ==
    /\ UNCHANGED notCyl
    /\ cyl_pc = "cut"
    /\ LET valid_faces == ValidFaces(cyl_vertices, cyl_faces, bins, best_segment)
       IN  IF CutIsEmpty(valid_faces)
           THEN /\ cyl_pc' = "exited"
                /\ cyl_exit' = MsgEmptyCut
                /\ body_mesh' = body_mesh
           ELSE /\ cyl_pc' = "saved"
                /\ cyl_exit' = cyl_exit
                /\ body_mesh' = Submesh(cyl_faces, valid_faces)
    /\ UNCHANGED <<cyl_vertices, cyl_faces, bins, stability_tol, profile_r,
                   profile_smooth, is_stable, segments, best_segment,
                   used_fallback>>

CylNext ==
    \/ CylCheck
    \/ CylProfile
    \/ CylSmooth
    \/ CylSegments
    \/ CylSelect
    \/ CylCut

----------------------------------------------------------------------------
(* Properties of extract_stable_cylinder, stated on the mesh and the bins *)

CylEnded == cyl_pc \in {"exited", "saved"}
CylPastProfile == cyl_pc \in {"smooth", "segments", "select", "cut", "saved"}
                    \/ (cyl_pc = "exited" /\ cyl_exit \in {MsgNoSegment, MsgEmptyCut})
CylPastSelect == cyl_pc \in {"cut", "saved"}
                    \/ (cyl_pc = "exited" /\ cyl_exit \in {MsgNoSegment, MsgEmptyCut})

\* the 0-based bins whose normalised gradient is below the tolerance
StableBinSet == { i \in 0..(bins - 1) : is_stable[i + 1] }

\* the maximal runs of stable bins, as <<first, last>>
StableRuns ==
    LET stable == StableBinSet
        firsts == { a \in stable : (a - 1) \notin stable }
        lasts == { b \in stable : (b + 1) \notin stable }
    IN  { <<a, SetMin({ b \in lasts : b >= a })>> : a \in firsts }

\* the runs that are at least 5% of the bins long
EligibleRuns == { r \in StableRuns : 20 * (r[2] - r[1] + 1) >= bins }

\* the middle 50% of the bins by index
MiddleHalf ==
    [i \in 1..((3 * bins) \div 4 - bins \div 4) |-> bins \div 4 + i - 1]

\* C2: when no stable segment is available for selection, also when stable
\* runs exist but all are shorter than 5% of the bins, the middle 50% of the
\* bins is selected and the function continues to the cut step.
C2_FallbackWhenNoneEligible ==
    (CylPastSelect /\ EligibleRuns = {}) =>
        /\ used_fallback
        /\ best_segment = MiddleHalf
        /\ cyl_exit # MsgNoSegment

\* the score key of the run r = <<first, last>>
RunKey(r) ==
    ScoreKey(r[2] - r[1] + 1,
             SeqSum([i \in 1..(r[2] - r[1] + 1) |-> profile_smooth[r[1] + i]]))

\* the run <<first, last>> that best_segment spans
SelectedRun == <<best_segment[1], best_segment[Len(best_segment)]>>

\* C11: when a stable run of at least 5% of the bins exists, the selected
\* segment is a maximal run of consecutive stable bins, at least 5% of the
\* bins long, whose score length * mean_radius^0.3 is not below that of any
\* other such run; of the runs with the top score the lowest one is selected.
C11_BestSegment ==
    (CylPastSelect /\ EligibleRuns # {}) =>
        LET eligible == EligibleRuns
            selected == SelectedRun
            top == RunKey(selected)
        IN  /\ Len(best_segment) > 0
            /\ best_segment = [i \in 1..Len(best_segment) |-> best_segment[1] + i - 1]
            /\ selected \in eligible
            /\ \A r \in eligible :
                  /\ ~BigGreater(RunKey(r), top)
                  /\ RunKey(r) = top => r[1] >= selected[1]

\* a selection where a lower eligible run lost on score and a stable run
\* shorter than 5% of the bins was passed over
C11_Witness ==
    /\ CylPastSelect
    /\ EligibleRuns # {}
    /\ \E r \in EligibleRuns :
          r[1] < SelectedRun[1] /\ BigGreater(RunKey(SelectedRun), RunKey(r))
    /\ StableRuns # EligibleRuns

\* vertex v (1-based) lies in the closed height interval of the selection:
\* from the lower edge of its first bin to the upper edge of its last bin
InSelectedInterval(v) ==
    LET z_min == ZMin(cyl_vertices)
        height == Height(cyl_vertices)
        z == cyl_vertices[v].z
    IN  /\ (z - z_min) * bins >= best_segment[1] * height
        /\ (z - z_min) * bins <= (best_segment[Len(best_segment)] + 1) * height

FaceInside(f) == \A j \in 1..3 : InSelectedInterval(f[j])

NoFaceInside == \A i \in 1..Len(cyl_faces) : ~FaceInside(cyl_faces[i])

\* C4: extract_stable_cylinder ends with a fatal exit, and exports nothing,
\* when the mesh has no vertex, when its height range is zero, and when no
\* face has all three vertices inside the selected height interval.
C4_FatalCases ==
    /\ (Len(cyl_vertices) = 0 /\ cyl_pc # "check") =>
          cyl_pc = "exited" /\ cyl_exit = MsgEmptyMesh /\ ~body_mesh.saved
    /\ (Len(cyl_vertices) > 0 /\ Height(cyl_vertices) = 0 /\ cyl_pc # "check") =>
          cyl_pc = "exited" /\ cyl_exit = MsgFlatMesh /\ ~body_mesh.saved
    /\ (CylEnded /\ Len(best_segment) > 0 /\ NoFaceInside) =>
          cyl_pc = "exited" /\ cyl_exit = MsgEmptyCut /\ ~body_mesh.saved
    /\ ~CylEnded => ~body_mesh.saved

\* the cut found no face inside the interval although the mesh has faces
C4_Witness ==
    /\ cyl_pc = "exited" /\ cyl_exit = MsgEmptyCut
    /\ Len(cyl_faces) > 0 /\ NoFaceInside

\* the vertices counted in bin i (1-based): edge(i-1) <= z < edge(i)
VerticesInBin(i) ==
    LET z_min == ZMin(cyl_vertices)
        height == Height(cyl_vertices)
    IN  { v \in 1..Len(cyl_vertices) :
            /\ (i - 1) * height <= (cyl_vertices[v].z - z_min) * bins
            /\ (cyl_vertices[v].z - z_min) * bins < i * height }

\* C5: the radius profile has exactly bins entries, each a number, and the
\* entry of a bin without vertices equals the entry before it (0 for bin 1).
C5_ProfileShape ==
    CylPastProfile =>
        /\ Len(profile_r) = bins
        /\ \A i \in 1..bins :
              /\ profile_r[i] \in Nat
              /\ VerticesInBin(i) = {} =>
                    profile_r[i] = (IF i = 1 THEN 0 ELSE profile_r[i - 1])

\* an empty bin carries a non-zero radius forward
C5_Witness ==
    /\ CylPastProfile
    /\ \E i \in 2..bins : VerticesInBin(i) = {} /\ profile_r[i] > 0

\* the bins 1..bins in which vertex v (1-based) is counted by the profile loop
CountedIn(v) ==
    { i \in 1..bins : BinIndices(cyl_vertices, bins)[v] = i }

\* C14 (as stated): the binning is a partition of the vertices: every vertex,
\* those at z_min and at z_max included, is counted in exactly one of the
\* bins 1..bins when the per-bin radius is computed.
C14_BinningPartition ==
    CylPastProfile =>
        \A v \in 1..Len(cyl_vertices) : Cardinality(CountedIn(v)) = 1

----------------------------------------------------------------------------
(* Bounds and inputs of the texture remapper *)

ImgSize == 2         \* the source image is ImgSize x ImgSize pixels
MaxFaceLines == 2    \* an OBJ file has 0..MaxFaceLines face lines

\* UV coordinates are the fractions k / UVDen, k in 0..UVDen
UVDen == 4

\* the vt lists of the OBJ files: the corners of the unit square; the same
\* pulled in by one step; three collinear points; a repeated point with a
\* small triangle; a general position
UnitSquare == << <<0, 0>>, <<UVDen, 0>>, <<0, UVDen>>, <<UVDen, UVDen>> >>

UVLayouts ==
    { UnitSquare,
      << <<1, 1>>, <<UVDen - 1, 1>>, <<1, UVDen - 1>>, <<UVDen - 1, UVDen - 1>> >>,
      << <<0, 0>>, <<2, 2>>, <<UVDen, UVDen>>, <<UVDen, 0>> >>,
      << <<1, 1>>, <<1, 1>>, <<2, 1>>, <<1, 2>> >>,
      << <<0, 1>>, <<UVDen, 2>>, <<2, UVDen>>, <<3, 3>> >> }

\* the UV indices of one face line: two triangles and a quad
FaceLineChoices == { <<1, 2, 3>>, <<2, 3, 4>>, <<1, 2, 3, 4>> }

RECURSIVE SeqsUpTo(_, _)
SeqsUpTo(S, n) ==
    IF n = 0 THEN {<<>>}
    ELSE LET shorter == SeqsUpTo(S, n - 1)
         IN  shorter \cup { Append(q, e) : q \in { r \in shorter : Len(r) = n - 1 }, e \in S }

NewFiles == { [vt |-> l, f |-> fl] : l \in UVLayouts, fl \in SeqsUpTo(FaceLineChoices, MaxFaceLines) }

\* the old file of a run: the same layout or the unit square, and the same
\* face lines, one fewer, one more, or none
OldFilesFor(nf) ==
    { [vt |-> l, f |-> fl] :
        l \in { nf.vt, UnitSquare },
        fl \in { nf.f,
                 SubSeq(nf.f, 1, Len(nf.f) - 1),
                 Append(nf.f, <<1, 2, 3>>),
                 <<>> } }

\* source images: every pixel its own colour; a checkerboard.  One number
\* stands for the four channels, which are all treated alike
SourceImages ==
    { [w |-> ImgSize, h |-> ImgSize,
       data |-> [q \in (0..(ImgSize - 1)) \X (0..(ImgSize - 1)) |-> 1 + q[1] + ImgSize * q[2]]],
      [w |-> ImgSize, h |-> ImgSize,
       data |-> [q \in (0..(ImgSize - 1)) \X (0..(ImgSize - 1)) |-> 1 + 8 * ((q[1] + q[2]) % 2)]] }

ScaleChoices == {1, 2}

----------------------------------------------------------------------------
(* uv_repack.py: load_obj_uv *)

\* the triangles (idx[1], idx[i+1], idx[i+2]) of one face line
RECURSIVE FanTriangles(_, _)
FanTriangles(uv_indices, i) ==
    IF i > Len(uv_indices) - 2 THEN <<>>
    ELSE << <<uv_indices[1], uv_indices[i + 1], uv_indices[i + 2]>> >>
         \o FanTriangles(uv_indices, i + 1)

RECURSIVE UvFaces(_)
UvFaces(f) ==
    IF f = <<>> THEN <<>> ELSE FanTriangles(Head(f), 1) \o UvFaces(Tail(f))

\* V is flipped on reading: [u, 1.0 - v]
load_obj_uv(file) ==
    [uvs |-> [i \in 1..Len(file.vt) |-> <<file.vt[i][1], UVDen - file.vt[i][2]>>],
     faces |-> UvFaces(file.f)]

\* np.array of an empty list has a float dtype, and a float array is not
\* accepted as an index
IndexRaises(n_loaded) == n_loaded = 0

MsgIndexError == "IndexError"

----------------------------------------------------------------------------
(* uv_repack.py: rasterizing the face map *)

Pixels(size) == (0..(size.w - 1)) \X (0..(size.h - 1))

\* a UV point in pixel units times UVDen: uv * [dst_w, dst_h]
ToPixelSpace(uv, size) == <<uv[1] * size.w, uv[2] * size.h>>

TriPixelSpace(uvs, face, size) ==
    << ToPixelSpace(uvs[face[1]], size),
       ToPixelSpace(uvs[face[2]], size),
       ToPixelSpace(uvs[face[3]], size) >>

\* draw.polygon converts each coordinate to an int, which drops the fraction
Truncated(pt) == <<pt[1] \div UVDen, pt[2] \div UVDen>>

Cross(a, b, c) == (b[1] - a[1]) * (c[2] - a[2]) - (b[2] - a[2]) * (c[1] - a[1])

InBox(q, a, b, c) ==
    /\ Min(a[1], Min(b[1], c[1])) <= q[1]
    /\ q[1] <= Max(a[1], Max(b[1], c[1]))
    /\ Min(a[2], Min(b[2], c[2])) <= q[2]
    /\ q[2] <= Max(a[2], Max(b[2], c[2]))

\* q lies inside or on the triangle a b c (a segment or a point when the
\* corners are collinear)
InClosedTriangle(q, a, b, c) ==
    LET o1 == Cross(a, b, q)
        o2 == Cross(b, c, q)
        o3 == Cross(c, a, q)
    IN  IF Cross(a, b, c) # 0
        THEN \/ (o1 >= 0 /\ o2 >= 0 /\ o3 >= 0)
             \/ (o1 <= 0 /\ o2 <= 0 /\ o3 <= 0)
        ELSE o1 = 0 /\ o2 = 0 /\ o3 = 0 /\ InBox(q, a, b, c)

\* the pixels a filled polygon paints: those of the closed triangle whose
\* corners are the truncated vertices
Footprint(tri, q) ==
    InClosedTriangle(q, Truncated(tri[1]), Truncated(tri[2]), Truncated(tri[3]))

\* the variant that paints background pixels only
DrawPolygon_keepFirst(fm, tri, fill) ==
    [q \in DOMAIN fm |-> IF Footprint(tri, q) /\ fm[q] = 0 THEN fill ELSE fm[q]]

DrawPolygon(fm, tri, fill) ==
    [q \in DOMAIN fm |-> IF Footprint(tri, q) THEN fill ELSE fm[q]]

----------------------------------------------------------------------------
(* uv_repack.py: barycentric weights and sampling *)

RECURSIVE GCD(_, _)
GCD(a, b) == IF b = 0 THEN a ELSE GCD(b, a % b)

\* the fraction fr = <<numerator, denominator>> with denominator > 0, reduced
Reduce(fr) ==
    LET g == GCD(Abs(fr[1]), fr[2])
    IN  <<fr[1] \div g, fr[2] \div g>>

Dot(a, b) == a[1] * b[1] + a[2] * b[2]

Diff(a, b) == <<a[1] - b[1], a[2] - b[2]>>

\* the denominator is replaced when abs(denom) < 1e-8
DenomFloorInv == 100000000

\* the products are in pixel units times UVDen^4
DenomClamped(denom) == Abs(denom) < ((UVDen ^ 4) + DenomFloorInv - 1) \div DenomFloorInv

\* the variant with v and w exchanged
BaryWeights_swapped(A, B, C, P) ==
    LET v0 == Diff(B, A)
        v1 == Diff(C, A)
        v2 == Diff(P, A)
        d00 == Dot(v0, v0)
        d01 == Dot(v0, v1)
        d11 == Dot(v1, v1)
        d20 == Dot(v2, v0)
        d21 == Dot(v2, v1)
        denom == d00 * d11 - d01 * d01
        nv == d00 * d21 - d01 * d20
        nw == d11 * d20 - d01 * d21
        k == DenomFloorInv \div (UVDen ^ 4)
    IN  IF DenomClamped(denom)
        THEN [u |-> 1 - (nv * k) - (nw * k), v |-> nv * k, w |-> nw * k,
              den |-> 1, clamped |-> TRUE]
        ELSE [u |-> denom - nv - nw, v |-> nv, w |-> nw,
              den |-> denom, clamped |-> FALSE]

\* the variant that leaves w out of u
BaryWeights_noW(A, B, C, P) ==
    LET v0 == Diff(B, A)
        v1 == Diff(C, A)
        v2 == Diff(P, A)
        d00 == Dot(v0, v0)
        d01 == Dot(v0, v1)
        d11 == Dot(v1, v1)
        d20 == Dot(v2, v0)
        d21 == Dot(v2, v1)
        denom == d00 * d11 - d01 * d01
        nv == d11 * d20 - d01 * d21
        nw == d00 * d21 - d01 * d20
        k == DenomFloorInv \div (UVDen ^ 4)
    IN  IF DenomClamped(denom)
        THEN [u |-> 1 - (nv * k), v |-> nv * k, w |-> nw * k,
              den |-> 1, clamped |-> TRUE]
        ELSE [u |-> denom - nv, v |-> nv, w |-> nw,
              den |-> denom, clamped |-> FALSE]

\* the weights u/den, v/den, w/den of pixel P in triangle A B C, all given in
\* pixel units times UVDen
BaryWeights(A, B, C, P) ==
    LET v0 == Diff(B, A)
        v1 == Diff(C, A)
        v2 == Diff(P, A)
        d00 == Dot(v0, v0)
        d01 == Dot(v0, v1)
        d11 == Dot(v1, v1)
        d20 == Dot(v2, v0)
        d21 == Dot(v2, v1)
        denom == d00 * d11 - d01 * d01
        nv == d11 * d20 - d01 * d21
        nw == d00 * d21 - d01 * d20
        k == DenomFloorInv \div (UVDen ^ 4)
    IN  IF DenomClamped(denom)
        THEN [u |-> 1 - (nv * k) - (nw * k), v |-> nv * k, w |-> nw * k,
              den |-> 1, clamped |-> TRUE]
        ELSE [u |-> denom - nv - nw, v |-> nv, w |-> nw,
              den |-> denom, clamped |-> FALSE]

\* the weights with their common factor removed
Lowest(wt) ==
    LET g == GCD(GCD(GCD(Abs(wt.u), Abs(wt.v)), Abs(wt.w)), wt.den)
    IN  [u |-> wt.u \div g, v |-> wt.v \div g, w |-> wt.w \div g,
         den |-> wt.den \div g, clamped |-> wt.clamped]

PixelWeights(uvs, face, size, q) ==
    LET tri == TriPixelSpace(uvs, face, size)
    IN  Lowest(BaryWeights(tri[1], tri[2], tri[3], <<q[1] * UVDen, q[2] * UVDen>>))

\* one coordinate of target_uv times the source size, as a reduced fraction
SampleCoord(wt, a, b, c, src_size) ==
    Reduce(<<(wt.u * a + wt.v * b + wt.w * c) * src_size, wt.den * UVDen>>)

\* the lower neighbour and the remainder of coordinate s = <<n, d>> on an
\* axis of n_px pixels; mode='nearest' holds the edge value outside
AxisCell(s, n_px) ==
    IF s[1] <= 0 THEN [lo |-> 0, hi |-> 0, r |-> 0]
    ELSE IF s[1] >= (n_px - 1) * s[2] THEN [lo |-> n_px - 1, hi |-> n_px - 1, r |-> 0]
    ELSE LET f == s[1] \div s[2]
         IN  [lo |-> f, hi |-> f + 1, r |-> s[1] - f * s[2]]

\* order=1 interpolation at (sx, sy), rounded to the integer pixel type
map_coordinates(img, sx, sy) ==
    LET cx == AxisCell(sx, img.w)
        cy == AxisCell(sy, img.h)
        qx == sx[2]
        qy == sy[2]
        num == img.data[<<cx.lo, cy.lo>>] * (qx - cx.r) * (qy - cy.r)
             + img.data[<<cx.hi, cy.lo>>] * cx.r * (qy - cy.r)
             + img.data[<<cx.lo, cy.hi>>] * (qx - cx.r) * cy.r
             + img.data[<<cx.hi, cy.hi>>] * cx.r * cy.r
    IN  (2 * num + qx * qy) \div (2 * qx * qy)

\* the colour sampled for an owned pixel with weights wt
OutPixel(img, uvs, face, wt) ==
    LET a == uvs[face[1]]
        b == uvs[face[2]]
        c == uvs[face[3]]
    IN  map_coordinates(img,
                        SampleCoord(wt, a[1], b[1], c[1], img.w),
                        SampleCoord(wt, a[2], b[2], c[2], img.h))

----------------------------------------------------------------------------
(* uv_repack.py: main *)

NoImage == [q \in {} |-> 0]

RemapIdle ==
    /\ remap_pc = "idle"
    /\ old_file = [vt |-> <<>>, f |-> <<>>]
    /\ new_file = [vt |-> <<>>, f |-> <<>>]
    /\ src_img = [w |-> 0, h |-> 0, data |-> NoImage]
    /\ scale = 1
    /\ old_uvs = <<>>
    /\ old_faces = <<>>
    /\ new_uvs = <<>>
    /\ new_faces = <<>>
    /\ faces_loaded = [old |-> 0, new |-> 0]
    /\ warned = FALSE
    /\ dst_size = [w |-> 0, h |-> 0]
    /\ face_map = NoImage
    /\ draw_i = 0
    /\ weights = NoImage
    /\ dst_img_arr = NoImage
    /\ remap_raised = ""
    /\ out_saved = FALSE

RemapInit ==
    /\ remap_pc = "load"
    /\ new_file \in NewFiles
    /\ old_file \in OldFilesFor(new_file)
    /\ src_img \in SourceImages
    /\ scale \in ScaleChoices
    /\ old_uvs = <<>>
    /\ old_faces = <<>>
    /\ new_uvs = <<>>
    /\ new_faces = <<>>
    /\ faces_loaded = [old |-> 0, new |-> 0]
    /\ warned = FALSE
    /\ dst_size = [w |-> 0, h |-> 0]
    /\ face_map = NoImage
    /\ draw_i = 0
    /\ weights = NoImage
    /\ dst_img_arr = NoImage
    /\ remap_raised = ""
    /\ out_saved = FALSE

\* both files are read, and the longer face list is cut to the shorter
RemapLoad ==
    /\ remap_pc = "load"
    /\ LET old == load_obj_uv(old_file)
           new == load_obj_uv(new_file)
           min_len == Min(Len(old.faces), Len(new.faces))
       IN  /\ old_uvs' = old.uvs
           /\ new_uvs' = new.uvs
           /\ faces_loaded' = [old |-> Len(old.faces), new |-> Len(new.faces)]
           /\ IF Len(old.faces) # Len(new.faces)
              THEN /\ warned' = TRUE
                   /\ old_faces' = SubSeq(old.faces, 1, min_len)
                   /\ new_faces' = SubSeq(new.faces, 1, min_len)
              ELSE /\ warned' = FALSE
                   /\ old_faces' = old.faces
                   /\ new_faces' = new.faces
    /\ remap_pc' = "image"
    /\ UNCHANGED <<old_file, new_file, src_img, scale, dst_size, face_map, draw_i,
                   weights, dst_img_arr, remap_raised, out_saved>>
    /\ UNCHANGED notRemap

\* the image is opened, the blank face map is made and the new triangles
\* are looked up; the lookup raises on a float index array
RemapImage ==
    /\ remap_pc = "image"
    /\ dst_size' = [w |-> src_img.w * scale, h |-> src_img.h * scale]
    /\ face_map' = [q \in Pixels(dst_size') |-> 0]
    /\ draw_i' = 0
    /\ IF IndexRaises(faces_loaded.new)
       THEN /\ remap_raised' = MsgIndexError
            /\ remap_pc' = "raised"
       ELSE /\ remap_raised' = remap_raised
            /\ remap_pc' = "draw"
    /\ UNCHANGED <<old_file, new_file, src_img, scale, old_uvs, old_faces, new_uvs,
                   new_faces, faces_loaded, warned, weights, dst_img_arr, out_saved>>
    /\ UNCHANGED notRemap

\* one pass of the drawing loop: face draw_i is filled with draw_i + 1
RemapDraw ==
    /\ remap_pc = "draw"
    /\ draw_i < Len(new_faces)
    /\ face_map' = DrawPolygon(face_map,
                               TriPixelSpace(new_uvs, new_faces[draw_i + 1], dst_size),
                               draw_i + 1)
    /\ draw_i' = draw_i + 1
    /\ UNCHANGED <<remap_pc, old_file, new_file, src_img, scale, old_uvs, old_faces,
                   new_uvs, new_faces, faces_loaded, warned, dst_size, weights,
                   dst_img_arr, remap_raised, out_saved>>
    /\ UNCHANGED notRemap

\* the weights of every owned pixel with respect to its owning triangle
RemapWeights ==
    /\ remap_pc = "draw"
    /\ draw_i = Len(new_faces)
    /\ weights' = [q \in { r \in DOMAIN face_map : face_map[r] > 0 } |->
                     PixelWeights(new_uvs, new_faces[face_map[q]], dst_size, q)]
    /\ remap_pc' = "sample"
    /\ UNCHANGED <<old_file, new_file, src_img, scale, old_uvs, old_faces, new_uvs,
                   new_faces, faces_loaded, warned, dst_size, face_map, draw_i,
                   dst_img_arr, remap_raised, out_saved>>
    /\ UNCHANGED notRemap

\* the old triangles are looked up (which raises on a float index array),
\* the source is sampled and the output array is filled
RemapSample ==
    /\ remap_pc = "sample"
    /\ IF IndexRaises(faces_loaded.old)
       THEN /\ remap_raised' = MsgIndexError
            /\ remap_pc' = "raised"
            /\ dst_img_arr' = dst_img_arr
       ELSE /\ remap_raised' = remap_raised
            /\ remap_pc' = "save"
            /\ dst_img_arr' =
                 [q \in DOMAIN face_map |->
                    IF face_map[q] > 0
                    THEN OutPixel(src_img, old_uvs, old_faces[face_map[q]], weights[q])
                    ELSE 0]
    /\ UNCHANGED <<old_file, new_file, src_img, scale, old_uvs, old_faces, new_uvs,
                   new_faces, faces_loaded, warned, dst_size, face_map, draw_i,
                   weights, out_saved>>
    /\ UNCHANGED notRemap

RemapSave ==
    /\ remap_pc = "save"
    /\ out_saved' = TRUE
    /\ remap_pc' = "done"
    /\ UNCHANGED <<old_file, new_file, src_img, scale, old_uvs, old_faces, new_uvs,
                   new_faces, faces_loaded, warned, dst_size, face_map, draw_i,
                   weights, dst_img_arr, remap_raised>>
    /\ UNCHANGED notRemap

RemapNext ==
    \/ RemapLoad
    \/ RemapImage
    \/ RemapDraw
    \/ RemapWeights
    \/ RemapSample
    \/ RemapSave

----------------------------------------------------------------------------
(* Properties of the texture remapper *)

RemapLoaded == remap_pc \notin {"idle", "load"}

\* the drawing loop has ended
RemapDrawn == remap_pc \in {"sample", "save", "done"}

RemapWeighted == remap_pc \in {"sample", "save", "done"}

RemapFilled == remap_pc \in {"save", "done"}

Owned == { q \in DOMAIN face_map : face_map[q] > 0 }

\* the owning triangle of an owned pixel, in pixel units times UVDen
OwnerTri(q) == TriPixelSpace(new_uvs, new_faces[face_map[q]], dst_size)

Scaled(q) == <<q[1] * UVDen, q[2] * UVDen>>

NonDegenerate(tri) == Cross(tri[1], tri[2], tri[3]) # 0

\* the pixel lies inside or on its owning triangle, taken with the vertex
\* coordinates as they are computed (not truncated)
InsideOwner(q) ==
    LET tri == OwnerTri(q)
    IN  InClosedTriangle(Scaled(q), tri[1], tri[2], tri[3])

Mismatch == faces_loaded.old # faces_loaded.new

\* C6 (as stated): when the two files yield different numbers of triangles
\* the remapper does not raise, and both face lists are the first
\* min(old, new) faces of what was read, in order, so both have equal length
\* and face i of the new list is paired with face i of the old list.
C6_MismatchTruncates ==
    (RemapLoaded /\ Mismatch) =>
        LET min_len == Min(faces_loaded.old, faces_loaded.new)
        IN  /\ remap_raised = ""
            /\ old_faces = SubSeq(load_obj_uv(old_file).faces, 1, min_len)
            /\ new_faces = SubSeq(load_obj_uv(new_file).faces, 1, min_len)
            /\ Len(old_faces) = Len(new_faces)

Covering(q) ==
    { i \in 1..Len(new_faces) : Footprint(TriPixelSpace(new_uvs, new_faces[i], dst_size), q) }

\* C9: after rasterization every cell of the ownership map is 0 or i + 1 with
\* 0 <= i < number of truncated new faces; a pixel covered by several
\* triangles is owned by the one with the highest face index, a pixel covered
\* by none is 0; and every output pixel whose cell is 0 is fully transparent.
C9_OwnershipMap ==
    /\ RemapDrawn =>
           \A q \in DOMAIN face_map :
               /\ face_map[q] \in 0..Len(new_faces)
               /\ face_map[q] = (IF Covering(q) = {} THEN 0 ELSE SetMax(Covering(q)))
    /\ RemapFilled =>
           \A q \in DOMAIN face_map : face_map[q] = 0 => dst_img_arr[q] = 0

\* a saved run with a pixel covered by two faces, a pixel covered by one
\* face that is not the last, and a background pixel
C9_Witness ==
    /\ remap_pc = "done"
    /\ \E q \in DOMAIN face_map : Cardinality(Covering(q)) >= 2
    /\ \E q \in DOMAIN face_map : face_map[q] > 0 /\ face_map[q] < Len(new_faces)
    /\ \E q \in DOMAIN face_map : face_map[q] = 0

----------------------------------------------------------------------------
(* main.py: run_command and pipeline *)

Stages == <<"preprocess", "seam", "unwrap", "repack">>

NoStatus == -1

\* the exit statuses a child process can end with
ExitStatuses == {0, 1}

MsgRuntimeError == "RuntimeError"
MsgFileNotFound == "FileNotFoundError"

\* the variant without check=True
run_command_unchecked(status) == ""

\* subprocess.run(check=True): a non-zero status becomes RuntimeError
run_command(status) == IF status = 0 THEN "" ELSE MsgRuntimeError

PipeIdle ==
    /\ pipe_pc = "idle"
    /\ started = <<>>
    /\ stage_status = [st \in Range(Stages) |-> NoStatus]
    /\ unwrap_seam = ""
    /\ pipe_result = ""

PipeInit ==
    /\ pipe_pc = "preprocess"
    /\ started = <<>>
    /\ stage_status = [st \in Range(Stages) |-> NoStatus]
    /\ unwrap_seam = ""
    /\ pipe_result = ""

\* what follows a run_command call: the next position, or the exception
AfterStage(status, next_pc) ==
    IF run_command(status) = ""
    THEN pipe_pc' = next_pc /\ pipe_result' = pipe_result
    ELSE pipe_pc' = "raised" /\ pipe_result' = run_command(status)

\* lines 60-67: preprocess.py runs to its end
PipePreprocess ==
    /\ pipe_pc = "preprocess"
    /\ started' = Append(started, "preprocess")
    /\ \E status \in ExitStatuses :
          /\ stage_status' = [stage_status EXCEPT !["preprocess"] = status]
          /\ AfterStage(status, "seam")
    /\ UNCHANGED unwrap_seam
    /\ UNCHANGED seamVars
    /\ UNCHANGED notPipe

\* lines 69-75: seam_extract.py is started; it reaches extract_seam, or the
\* process ends with a failure status before that (imports, reading the mesh)
PipeSeamStart ==
    /\ pipe_pc = "seam"
    /\ started' = Append(started, "seam")
    /\ \/ /\ pipe_pc' = "seam_running"
          /\ UNCHANGED <<stage_status, pipe_result>>
       \/ /\ stage_status' = [stage_status EXCEPT !["seam"] = 1]
          /\ AfterStage(1, "unwrap")
    /\ UNCHANGED unwrap_seam
    /\ UNCHANGED seamVars
    /\ UNCHANGED notPipe

\* extract_seam runs inside the child process
PipeSeamStep ==
    /\ pipe_pc = "seam_running"
    /\ SeamNext

\* the child process ends: status 0 when extract_seam returned, 1 when an
\* exception left it
PipeSeamExit ==
    /\ pipe_pc = "seam_running"
    /\ seam_pc \in {"returned", "raised"}
    /\ LET status == IF seam_pc = "raised" THEN 1 ELSE 0
       IN  /\ stage_status' = [stage_status EXCEPT !["seam"] = status]
           /\ AfterStage(status, "unwrap")
    /\ UNCHANGED <<started, unwrap_seam>>
    /\ UNCHANGED seamVars
    /\ UNCHANGED notPipe

\* lines 77-90: the Blender check, then seam2uv.py runs on path_seam_txt as
\* it is on disk
PipeUnwrap ==
    /\ pipe_pc = "unwrap"
    /\ \/ /\ pipe_pc' = "raised"
          /\ pipe_result' = MsgFileNotFound
          /\ UNCHANGED <<started, stage_status, unwrap_seam>>
       \/ /\ started' = Append(started, "unwrap")
          /\ unwrap_seam' = seam_file.by
          /\ \E status \in ExitStatuses :
                /\ stage_status' = [stage_status EXCEPT !["unwrap"] = status]
                /\ AfterStage(status, "repack")
    /\ UNCHANGED seamVars
    /\ UNCHANGED notPipe

\* lines 92-107: uv_repack.py runs when the texture exists, then the output
\* path is returned
PipeRepack ==
    /\ pipe_pc = "repack"
    /\ \/ /\ started' = Append(started, "repack")
          /\ \E status \in ExitStatuses :
                /\ stage_status' = [stage_status EXCEPT !["repack"] = status]
                /\ IF run_command(status) = ""
                   THEN pipe_pc' = "returned" /\ pipe_result' = "returned"
                   ELSE pipe_pc' = "raised" /\ pipe_result' = run_command(status)
       \/ /\ pipe_pc' = "returned"
          /\ pipe_result' = "returned"
          /\ UNCHANGED <<started, stage_status>>
    /\ UNCHANGED unwrap_seam
    /\ UNCHANGED seamVars
    /\ UNCHANGED notPipe

PipeNext ==
    \/ PipePreprocess
    \/ PipeSeamStart
    \/ PipeSeamStep
    \/ PipeSeamExit
    \/ PipeUnwrap
    \/ PipeRepack

----------------------------------------------------------------------------
(* Properties of pipeline *)

PipeEnded == pipe_pc \in {"returned", "raised"}

\* C12: the stages are started in the order preprocess, seam extraction,
\* unwrap, repack; a stage is started only after every earlier stage of the
\* run has exited with status 0; after a stage exits with a failure status
\* no later stage is started, and pipeline raises instead of returning the
\* output path.
C12_StageOrder ==
    /\ Len(started) <= Len(Stages)
    /\ \A i \in 1..Len(started) : started[i] = Stages[i]
    /\ \A i \in 1..Len(started) : \A j \in 1..(i - 1) : stage_status[Stages[j]] = 0
    /\ \A i \in 1..Len(Stages) :
          (stage_status[Stages[i]] \notin {0, NoStatus}) =>
              /\ Len(started) = i
              /\ pipe_pc = "raised"
              /\ pipe_result # "returned"
    /\ (pipe_pc = "returned") =>
          /\ pipe_result = "returned"
          /\ \A i \in 1..Len(started) : stage_status[started[i]] = 0

\* the unwrap stage failed after two successful stages, and the pipeline
\* raised without starting the repack
C12_Witness ==
    /\ pipe_pc = "raised"
    /\ pipe_result = MsgRuntimeError
    /\ started = <<"preprocess", "seam", "unwrap">>
    /\ stage_status["preprocess"] = 0
    /\ stage_status["seam"] = 0
    /\ stage_status["unwrap"] = 1
    /\ stage_status["repack"] = NoStatus

\* C13 (as stated): the unwrap stage is started only if the seam extraction
\* stage of the same run wrote the seam file; after a GeometryError it is not
\* started on a missing seam file or on one left over from an earlier run.
C13_UnwrapNeedsFreshSeam ==
    (\E i \in 1..Len(started) : started[i] = "unwrap") => unwrap_seam = "this"

----------------------------------------------------------------------------
(* gui.py: MainWindow *)

MaxRuns == 2         \* at most MaxRuns pipeline threads are launched

ObjPaths == {"a.obj", "b.obj"}
TexPaths == {"a.png"}

GuiIdle ==
    /\ gui_pc = "idle"
    /\ input_obj = ""
    /\ input_tex = ""
    /\ btn_enabled = FALSE
    /\ signals_cur = 0
    /\ threads = <<>>
    /\ pending = <<>>
    /\ last_event = ""

\* __init__: no file, the Start button disabled
GuiInit ==
    /\ gui_pc = "open"
    /\ input_obj = ""
    /\ input_tex = ""
    /\ btn_enabled = FALSE
    /\ signals_cur = 0
    /\ threads = <<>>
    /\ pending = <<>>
    /\ last_event = ""

\* set_obj: the path is stored, the Start button is enabled, and a texture
\* of the same base name is taken when one exists
set_obj(obj_path) ==
    /\ input_obj' = obj_path
    /\ btn_enabled' = TRUE
    /\ \/ input_tex' = input_tex
       \/ \E t \in TexPaths : input_tex' = t

\* dropEvent with an .obj file
GuiDropObj ==
    /\ gui_pc = "open"
    /\ \E f \in ObjPaths : set_obj(f)
    /\ UNCHANGED <<gui_pc, signals_cur, threads, pending>>
    /\ last_event' = "dropEvent"
    /\ UNCHANGED notGui

\* dropEvent with an image file: set_tex
GuiDropTex ==
    /\ gui_pc = "open"
    /\ \E f \in TexPaths : input_tex' = f
    /\ UNCHANGED <<gui_pc, input_obj, btn_enabled, signals_cur, threads, pending>>
    /\ last_event' = "dropEvent"
    /\ UNCHANGED notGui

\* browse_file: a click on the drop label, the dialog returns a file name
GuiBrowse ==
    /\ gui_pc = "open"
    /\ \E fname \in ObjPaths : set_obj(fname)
    /\ UNCHANGED <<gui_pc, signals_cur, threads, pending>>
    /\ last_event' = "browse_file"
    /\ UNCHANGED notGui

\* a click on the Start button, which emits clicked only while enabled:
\* start_processing disables it, makes a new signals object and a thread
GuiClick ==
    /\ gui_pc = "open"
    /\ btn_enabled
    /\ Len(threads) < MaxRuns
    /\ IF input_obj = ""
       THEN UNCHANGED <<btn_enabled, signals_cur, threads>>
       ELSE /\ btn_enabled' = FALSE
            /\ signals_cur' = Len(threads) + 1
            /\ threads' = Append(threads, "running")
    /\ UNCHANGED <<gui_pc, input_obj, input_tex, pending>>
    /\ last_event' = "start_processing"
    /\ UNCHANGED notGui

\* run_pipeline_thread ends: finished or error is emitted on the object that
\* self.signals holds at that moment, and the call is queued to the GUI thread
GuiThreadEnd ==
    /\ gui_pc = "open"
    /\ \E t \in 1..Len(threads) :
          /\ threads[t] = "running"
          /\ threads' = [threads EXCEPT ![t] = "emitted"]
          /\ \E kind \in {"finished", "error"} :
                pending' = Append(pending, [thread |-> t, signals |-> signals_cur, kind |-> kind])
    /\ UNCHANGED <<gui_pc, input_obj, input_tex, btn_enabled, signals_cur>>
    /\ last_event' = "run_pipeline_thread"
    /\ UNCHANGED notGui

\* the GUI thread takes the next queued call: on_finished or on_error enables
\* the Start button.  A call from a signals object that was replaced in the
\* meantime is delivered or is lost with the object
GuiDeliver ==
    /\ gui_pc = "open"
    /\ Len(pending) > 0
    /\ LET call == Head(pending)
       IN  \/ /\ btn_enabled' = TRUE
              /\ threads' = [threads EXCEPT ![call.thread] = "handled"]
              /\ last_event' = (IF call.kind = "finished" THEN "on_finished" ELSE "on_error")
           \/ /\ call.signals # signals_cur
              /\ btn_enabled' = btn_enabled
              /\ threads' = [threads EXCEPT ![call.thread] = "lost"]
              /\ last_event' = last_event
    /\ pending' = Tail(pending)
    /\ UNCHANGED <<gui_pc, input_obj, input_tex, signals_cur>>
    /\ UNCHANGED notGui

GuiNext ==
    \/ GuiDropObj
    \/ GuiDropTex
    \/ GuiBrowse
    \/ GuiClick
    \/ GuiThreadEnd
    \/ GuiDeliver

\* the threads launched whose on_finished / on_error has not run
Unfinished == { t \in 1..Len(threads) : threads[t] \in {"running", "emitted"} }

\* C15 (as stated): from the launch of a pipeline thread until on_finished or
\* on_error runs for it the Start button stays disabled under every
\* interleaving of drops, browsing and clicks, so at most one pipeline
\* thread runs at a time and the signals object of a running thread is never
\* replaced.
C15_StartLocked ==
    /\ Unfinished # {} => ~btn_enabled
    /\ Cardinality({ t \in 1..Len(threads) : threads[t] = "running" }) <= 1
    /\ \A t \in 1..Len(threads) : threads[t] = "running" => signals_cur = t

----------------------------------------------------------------------------
(* Specifications *)

SeamStart == SeamInit /\ CylIdle /\ RemapIdle /\ PipeIdle /\ GuiIdle
SpecSeam == SeamStart /\ [][SeamNext]_vars

CylStart == CylInit /\ SeamIdle /\ RemapIdle /\ PipeIdle /\ GuiIdle
SpecCyl == CylStart /\ [][CylNext]_vars

RemapStart == RemapInit /\ SeamIdle /\ CylIdle /\ PipeIdle /\ GuiIdle

SpecRemap == RemapStart /\ [][RemapNext]_vars

\* the seam model holds the mesh that the preprocess stage hands on
PipeStart == PipeInit /\ SeamInit /\ CylIdle /\ RemapIdle /\ GuiIdle

SpecPipe == PipeStart /\ [][PipeNext]_vars

GuiStart == GuiInit /\ SeamIdle /\ CylIdle /\ RemapIdle /\ PipeIdle

SpecGui == GuiStart /\ [][GuiNext]_vars

============================================================================
